---- MODULE Spec2Model ----
(***************************************************************************)
(* Model of cloud.py: the proxy pool (load_proxies, get_next_proxy), the   *)
(* per-account job (create_single_account, try_create_account,             *)
(* save_account) and the threaded run (thread_worker.run_jobs, main).      *)
(*                                                                         *)
(* Every thread of main() is a process with a program counter thr[w].pc.   *)
(* get_next_proxy is split at the points where another thread could run    *)
(* if PROXY_LOCK did not exclude it: entry (lock acquisition and the       *)
(* `available` list), each iteration of the scan (read of the list, of the *)
(* cursor and of the counter) and the write of the counter.                *)
(*                                                                         *)
(* Errors: the network and the browser are the failing collaborators.      *)
(* generate_email catches every error itself; try_create_account catches   *)
(* every error raised after its `try:` (line 242) but the launch of the    *)
(* browser, the context and the page (lines 225-237) is outside it.  File  *)
(* appends of save_account are modelled as total: the line of a job is     *)
(* short, and reaches the file in one append when the file is closed.      *)
(*                                                                         *)
(* Specifications: Spec and FairSpec are a run of main(); PoolSpec is      *)
(* get_next_proxy under concurrent callers; ScenarioSpec is the run with   *)
(* 5 jobs, 3 workers and 2 proxies of cap 1; InboxSpec is one call of      *)
(* check_inbox_for_activation_link; FlowSpec is one call of                *)
(* try_create_account taken stage by stage.                                *)
(***************************************************************************)
EXTENDS Integers, Sequences, FiniteSets, TLC

\* ---- bounds of the model --------------------------------------------------
\* A run of main (Spec): jobs, worker threads, lines of proxies.txt.
MaxJobs == 2
MaxWorkers == 2
MaxProxies == 1
\* Threads calling get_next_proxy on a pool (PoolSpec): lines, cap, threads.
MaxPoolSize == 3
MaxPoolCap == 2
MaxCallers == 2
\* A call of check_inbox_for_activation_link (InboxSpec): the max_attempts
\* argument and the messages in one response.
MaxPollAttempts == 3
MaxMessages == 2

\* ---- program constants ----------------------------------------------------
\* line 49: MAX_PROXY_USES = 15
DefaultMaxProxyUses == 15

\* ---- values ---------------------------------------------------------------
None == "None"

\* The mail service hands out a new mailbox at every request and the password
\* is drawn at random at every call: values are opaque and are named by the
\* call that produced them (the n-th call made for job j).
NewEmail(j, n) == "mail" \o ToString(j) \o "." \o ToString(n) \o "@temp"
NewPassword(j, n) == "pw" \o ToString(j) \o "." \o ToString(n)

VARIABLES
  PROXIES_LIST,    \* sequence of proxy identifiers; << >> is None (disabled)
  PROXY_USAGE,     \* dict: identifier -> usage count
  PROXY_INDEX,     \* round-robin cursor
  PROXY_LOCK,      \* the set of threads inside `with PROXY_LOCK`
  MAX_PROXY_USES,  \* the cap: 15 as written, other values when reconfigured
  total_accounts,  \* main: number of jobs requested
  threads,         \* main: number of worker threads
  job_queue,       \* Queue of job indices
  results,         \* main's shared results list
  accounts,        \* accounts.txt: sequence of <<email, password>> lines
  thr,             \* per-thread frame: pc and locals of run_jobs and callees
  main_pc,         \* main: "join" | "done"
  created,         \* main: the reported count of successes
  h_dequeued,      \* history: job -> number of times it was dequeued
  h_issued,        \* history: job -> sequence of generate_email results
  h_passwords,     \* history: job -> sequence of generated passwords
  h_tries,         \* history: job -> seq. of <<email, password, outcome, proxy>>
  h_ret,           \* history: job -> "none" | "True" | "False" | "raised"
  h_saved,         \* history: job -> number of lines save_account appended
  h_proxy,         \* history: job -> sequence of get_next_proxy results
  h_calls,         \* history: get_next_proxy calls in order of return
  inbox,           \* a call of check_inbox_for_activation_link and its history
  flow             \* a call of try_create_account, stage by stage

pool == <<PROXIES_LIST, PROXY_USAGE, PROXY_INDEX, PROXY_LOCK, MAX_PROXY_USES>>
run == <<total_accounts, threads, job_queue, results, accounts, main_pc, created>>
hjob == <<h_dequeued, h_issued, h_passwords, h_tries, h_ret, h_saved, h_proxy>>
vars == <<PROXIES_LIST, PROXY_USAGE, PROXY_INDEX, PROXY_LOCK, MAX_PROXY_USES,
          total_accounts, threads, job_queue, results, accounts, thr, main_pc,
          created, h_dequeued, h_issued, h_passwords, h_tries, h_ret, h_saved,
          h_proxy, h_calls, inbox, flow>>

Threads == 0 .. (threads - 1)
Jobs == 1 .. total_accounts

Range(s) == {s[i] : i \in 1 .. Len(s)}

\* ---- load_proxies ---------------------------------------------------------
ProxyName(i) == "socks5://" \o ToString(i)

\* The lists load_proxies can return.  Identifiers are opaque strings, so
\* lists are enumerated up to renaming: the i-th new identifier of a list
\* is ProxyName(i).  Duplicate lines are kept as read (every valid line is
\* appended); the empty list stands for None (no file, or no valid line).
ProxyLists(m) ==
  LET shapes ==
        {l \in UNION {[1 .. n -> 1 .. m] : n \in 0 .. m} :
           \A i \in 1 .. Len(l) :
              l[i] <= 1 + Cardinality({l[j] : j \in 1 .. (i - 1)})}
  IN {[i \in 1 .. Len(l) |-> ProxyName(l[i])] : l \in shapes}

\* PROXY_USAGE = {p: 0 for p in proxies}
InitUsage(proxies) == [p \in Range(proxies) |-> 0]

\* ---- thread frames --------------------------------------------------------
Idle == [pc |-> "loop", ret |-> "issue", acc_index |-> 0, proxy |-> None, email |-> None,
         password |-> None, attempt |-> 0,
         local_results |-> << >>, p |-> None, cnt |-> 0, k |-> 0,
         available |-> << >>, at |-> 0, seen |-> << >>]

\* A thread that has ended, by return or by an error: its frame is gone.
Ended(how) == [Idle EXCEPT !.pc = how]

\* No call of check_inbox_for_activation_link is observed.
NoInbox == [pc |-> "idle", email |-> None, max_attempts |-> 0, attempt |-> 0,
            reply |-> << >>, log |-> << >>, slept |-> 0, ret |-> None]

\* No call of try_create_account is observed stage by stage.
NoFlow == [pc |-> "idle", proxy |-> None, headless |-> TRUE, args |-> << >>,
           playwright |-> "none", browser |-> "none", done |-> << >>,
           link_by |-> None, ret |-> "none"]

Init ==
  /\ PROXIES_LIST \in ProxyLists(MaxProxies)
  /\ PROXY_USAGE = InitUsage(PROXIES_LIST)
  /\ PROXY_INDEX = 0
  /\ PROXY_LOCK = {}
  /\ MAX_PROXY_USES = DefaultMaxProxyUses
  /\ total_accounts \in 0 .. MaxJobs
  /\ threads \in 1 .. MaxWorkers
  /\ job_queue = [i \in 1 .. total_accounts |-> i]
  /\ results = << >>
  /\ accounts = << >>
  /\ thr = [w \in Threads |-> Idle]
  /\ main_pc = "join"
  /\ created = 0
  /\ h_dequeued = [j \in Jobs |-> 0]
  /\ h_issued = [j \in Jobs |-> << >>]
  /\ h_passwords = [j \in Jobs |-> << >>]
  /\ h_tries = [j \in Jobs |-> << >>]
  /\ h_ret = [j \in Jobs |-> "none"]
  /\ h_saved = [j \in Jobs |-> 0]
  /\ h_proxy = [j \in Jobs |-> << >>]
  /\ h_calls = << >>
  /\ inbox = NoInbox
  /\ flow = NoFlow

\* ---- get_next_proxy (lines 80-112) ----------------------------------------
Frame(w, f) == thr' = [thr EXCEPT ![w] = f]

\* A lock that excludes nobody.
LockFreeAlways(lock) == TRUE

\* `with PROXY_LOCK:` can be entered when no thread holds the lock.
LockFree(lock) == lock = {}

\* The keys of PROXY_USAGE in dict order: first occurrences in the list.
RECURSIVE DictKeys(_)
DictKeys(l) ==
  IF l = << >> THEN << >>
  ELSE LET d == DictKeys(SubSeq(l, 1, Len(l) - 1))
       IN IF l[Len(l)] \in Range(d) THEN d ELSE Append(d, l[Len(l)])

\* Off by one: a record at the cap still counts as available.
IsAvailableAtCap(cnt, max) == cnt <= max

\* line 90: available = [p for p, cnt in PROXY_USAGE.items() if cnt < MAX]
IsAvailable(cnt, max) == cnt < max
Available(list, usage, max) ==
  SelectSeq(DictKeys(list), LAMBDA p : IsAvailable(usage[p], max))

\* The scan asks for one more free use than line 90 does.
EligibleWithSpare(cnt, max) == cnt + 1 < max

\* line 101: if cnt < MAX_PROXY_USES
Eligible(cnt, max) == cnt < max

\* The cursor does not move.
NextIndexStuck(idx, n) == idx

\* The cursor advanced without the wrap.
NextIndexNoWrap(idx, n) == idx + 1

\* line 99: PROXY_INDEX = (PROXY_INDEX + 1) % n
NextIndex(idx, n) == (idx + 1) % n

\* Every allocation is logged as an assignment.
AllocationLineAssigned(p, n, max) == <<"assigned", p, n>>

\* lines 103-106: the line printed for an allocation by the scan, n being the
\* new count: "Proxy exhausted" at the cap, "Assigned proxy" below it.
AllocationLine(p, n, max) ==
  IF n >= max THEN <<"exhausted", p, n>> ELSE <<"assigned", p, n>>

\* The lines a call prints: line 111 for the fallback, line 93 when all
\* proxies are exhausted, none when proxies are disabled (line 89).
Printed(v, how, n, max) ==
  CASE how = "scan" -> <<AllocationLine(v, n, max)>>
    [] how = "fallback" -> <<<<"assigned", v, n>>>>
    [] how = "none" -> <<<<"all_exhausted", None, 0>>>>
    [] OTHER -> << >>

\* The caller's job, if it runs one, has received v.
Received(w, v) ==
  h_proxy' = IF thr[w].acc_index \in DOMAIN h_proxy
             THEN [h_proxy EXCEPT ![thr[w].acc_index] = Append(@, v)]
             ELSE h_proxy

\* A caller that got no proxy waits for one.
AfterCallWaits(ret, v) == IF v = None THEN "wait" ELSE ret

\* lines 333-334: the caller goes on whatever get_next_proxy returned; `ret`
\* is its next position.
AfterCall(ret, v) == ret

\* `return v` of get_next_proxy to its caller (`proxy = get_next_proxy()`,
\* line 333).  h_calls records the call: the value returned, by the scan or
\* by the fallback, the cursor and the counters the call found on entry, the
\* cursor it left and the lines it printed.
GnpReturn(w, v, how) ==
  /\ Frame(w, [thr[w] EXCEPT !.pc = AfterCall(thr[w].ret, v), !.proxy = v, !.p = None,
                             !.cnt = 0, !.k = 0, !.available = << >>,
                             !.at = 0, !.seen = << >>])
  /\ h_calls' = Append(h_calls, [ret |-> v, how |-> how, at |-> thr[w].at,
                                 seen |-> thr[w].seen, left |-> PROXY_INDEX',
                                 log |-> Printed(v, how, PROXY_USAGE'[v],
                                                 MAX_PROXY_USES)])
  /\ Received(w, v)

\* lines 87-95: take the lock, return None for a disabled or exhausted pool.
GnpEnter(w) ==
  /\ thr[w].pc = "gnp"
  /\ LockFree(PROXY_LOCK)
  /\ LET available == Available(PROXIES_LIST, PROXY_USAGE, MAX_PROXY_USES)
     IN IF PROXIES_LIST = << >> \/ available = << >>
        THEN /\ Frame(w, [thr[w] EXCEPT !.pc = AfterCall(thr[w].ret, None),
                                        !.proxy = None])
             /\ h_calls' = Append(h_calls, [ret |-> None, how |-> "none",
                                            at |-> PROXY_INDEX,
                                            seen |-> PROXY_USAGE,
                                            left |-> PROXY_INDEX,
                                            log |-> Printed(None,
                                                     IF PROXIES_LIST = << >>
                                                     THEN "disabled" ELSE "none",
                                                     0, MAX_PROXY_USES)])
             /\ Received(w, None)
             /\ UNCHANGED PROXY_LOCK
        ELSE /\ PROXY_LOCK' = PROXY_LOCK \cup {w}
             /\ Frame(w, [thr[w] EXCEPT
                    !.pc = "gnp_scan", !.k = 0, !.available = available,
                    !.at = PROXY_INDEX, !.seen = PROXY_USAGE])
             /\ UNCHANGED <<h_calls, h_proxy>>
  /\ UNCHANGED <<PROXIES_LIST, PROXY_USAGE, PROXY_INDEX, MAX_PROXY_USES>>
  /\ UNCHANGED <<run, h_dequeued, h_issued, h_passwords, h_tries, h_ret, h_saved>>
  /\ UNCHANGED <<inbox, flow>>

\* lines 97-101, one iteration of `for _ in range(n)`: read the record under
\* the cursor, advance the cursor, read its counter.  When the n-th iteration
\* finds no eligible record the loop ends and lines 109-112 (the fallback)
\* run: the first available record is incremented and returned.
GnpScan(w) ==
  /\ thr[w].pc = "gnp_scan"
  /\ LET n == Len(PROXIES_LIST)
         p == PROXIES_LIST[(PROXY_INDEX % n) + 1]
         cnt == PROXY_USAGE[p]
         q == thr[w].available[1]
     IN /\ PROXY_INDEX' = NextIndex(PROXY_INDEX, n)
        /\ IF Eligible(cnt, MAX_PROXY_USES)
           THEN /\ Frame(w, [thr[w] EXCEPT !.pc = "gnp_inc", !.p = p, !.cnt = cnt])
                /\ UNCHANGED <<PROXY_USAGE, PROXY_LOCK, h_calls, h_proxy>>
           ELSE IF thr[w].k + 1 < n
           THEN /\ Frame(w, [thr[w] EXCEPT !.k = @ + 1])
                /\ UNCHANGED <<PROXY_USAGE, PROXY_LOCK, h_calls, h_proxy>>
           ELSE /\ PROXY_USAGE' = [PROXY_USAGE EXCEPT ![q] = @ + 1]
                /\ PROXY_LOCK' = PROXY_LOCK \ {w}
                /\ GnpReturn(w, q, "fallback")
  /\ UNCHANGED <<PROXIES_LIST, MAX_PROXY_USES>>
  /\ UNCHANGED <<run, h_dequeued, h_issued, h_passwords, h_tries, h_ret, h_saved>>
  /\ UNCHANGED <<inbox, flow>>

\* The use is not counted.
UsedUncounted(cnt) == cnt

\* line 102: PROXY_USAGE[p] = cnt + 1
Used(cnt) == cnt + 1

\* lines 102-107: PROXY_USAGE[p] = cnt + 1, log, release the lock, return p.
GnpInc(w) ==
  /\ thr[w].pc = "gnp_inc"
  /\ PROXY_USAGE' = [PROXY_USAGE EXCEPT ![thr[w].p] = Used(thr[w].cnt)]
  /\ PROXY_LOCK' = PROXY_LOCK \ {w}
  /\ UNCHANGED <<PROXIES_LIST, PROXY_INDEX, MAX_PROXY_USES>>
  /\ GnpReturn(w, thr[w].p, "scan")
  /\ UNCHANGED <<run, h_dequeued, h_issued, h_passwords, h_tries, h_ret, h_saved>>
  /\ UNCHANGED <<inbox, flow>>

\* ---- thread_worker.run_jobs (lines 325-337) -------------------------------
\* line 327: while not job_queue.empty()
LoopTest(w) ==
  /\ thr[w].pc = "loop"
  /\ Frame(w, [thr[w] EXCEPT !.pc = IF job_queue = << >> THEN "extend" ELSE "get"])
  /\ UNCHANGED <<pool, run, hjob, h_calls>>
  /\ UNCHANGED <<inbox, flow>>

\* The head is read and left in the queue.
DequeuePeek(q) == q

\* Queue.get_nowait removes the head it returns.
Dequeue(q) == Tail(q)

\* A blocking get: the thread waits at the dequeue.
OnEmptyWait == "get"

\* lines 330-331: get_nowait on an empty queue raises Empty; `except: break`.
OnEmpty == "extend"

\* lines 328-332: acc_index = job_queue.get_nowait()
GetNowait(w) ==
  /\ thr[w].pc = "get"
  /\ IF job_queue = << >>
     THEN /\ Frame(w, [thr[w] EXCEPT !.pc = OnEmpty])
          /\ UNCHANGED <<job_queue, h_dequeued>>
     ELSE /\ Frame(w, [thr[w] EXCEPT !.pc = "gnp", !.acc_index = Head(job_queue)])
          /\ job_queue' = Dequeue(job_queue)
          /\ h_dequeued' = [h_dequeued EXCEPT ![Head(job_queue)] = @ + 1]
  /\ UNCHANGED <<pool, total_accounts, threads, results, accounts, main_pc, created>>
  /\ UNCHANGED <<h_issued, h_passwords, h_tries, h_ret, h_saved, h_proxy, h_calls>>
  /\ UNCHANGED <<inbox, flow>>

\* ---- create_single_account (lines 300-318) --------------------------------
\* The check of the address is missing.
IssueFailedUnchecked(email) == FALSE

\* line 303: if not email
IssueFailed(email) == email = None

\* line 310: for attempt in range(1, 3)
LastAttempt == 2

\* The job is over with outcome b: `success = ...` (line 334), then lines
\* 335-336, local_results.append(success) and job_queue.task_done(), which
\* touch nothing shared that is read again.  The job's locals are dead.
JobReturns(w, b) ==
  Frame(w, [Idle EXCEPT !.local_results = Append(thr[w].local_results, b)])

\* lines 301-308: generate_email returns an address, or None after any error
\* or malformed response (lines 131-143); then the password is generated.
IssueIdentity(w) ==
  /\ thr[w].pc = "issue"
  /\ LET j == thr[w].acc_index
     IN \E e \in {NewEmail(j, Len(h_issued[j]) + 1), None} :
          /\ h_issued' = [h_issued EXCEPT ![j] = Append(@, e)]
          /\ IF IssueFailed(e)
             THEN /\ JobReturns(w, FALSE)
                  /\ h_ret' = [h_ret EXCEPT ![j] = "False"]
                  /\ UNCHANGED h_passwords
             ELSE LET pw == NewPassword(j, Len(h_passwords[j]) + 1)
                  IN /\ Frame(w, [thr[w] EXCEPT !.pc = "attempt", !.email = e,
                                                !.password = pw, !.attempt = 1])
                     /\ h_passwords' = [h_passwords EXCEPT ![j] = Append(@, pw)]
                     /\ UNCHANGED h_ret
  /\ UNCHANGED <<pool, run, h_dequeued, h_tries, h_saved, h_proxy, h_calls>>
  /\ UNCHANGED <<inbox, flow>>

\* ---- try_create_account (lines 221-297) -----------------------------------
\* Where an attempt ends: an error while launching the browser, the context
\* or the page (lines 225-237, before `try:`); no register link found (line
\* 257); any other error or timeout inside `try:` (line 291); no activation
\* link (line 281); or the activation page reached (line 289).
StageOutcomes ==
  {"launch_error", "no_register_link", "stage_error", "no_activation", "activated"}

\* The value try_create_account returns; "raise" when the error propagates.
TryResult(o) ==
  CASE o = "launch_error" -> "raise"
    [] o = "activated" -> "True"
    [] OTHER -> "False"

\* The retry starts over from the proxy allocation.
RetryAtAllocation == "gnp"

\* lines 310-311: the next iteration calls try_create_account again, with the
\* arguments of the first call.
RetryAt == "attempt"

\* line 311 and lines 315-318: one attempt and the loop's bookkeeping.  An
\* error raised by the attempt is caught neither by create_single_account
\* nor by run_jobs nor by thread_worker: the thread ends.
TryCreateAccount(w) ==
  /\ thr[w].pc = "attempt"
  /\ \E o \in StageOutcomes :
       LET r == TryResult(o)
           j == thr[w].acc_index
       IN /\ h_tries' = [h_tries EXCEPT ![j] =
                           Append(@, <<thr[w].email, thr[w].password, r,
                                       thr[w].proxy>>)]
          /\ CASE r = "raise" ->
                    /\ Frame(w, Ended("crashed"))
                    /\ h_ret' = [h_ret EXCEPT ![j] = "raised"]
               [] r = "True" ->
                    /\ Frame(w, [thr[w] EXCEPT !.pc = "save"])
                    /\ UNCHANGED h_ret
               [] OTHER ->
                    IF thr[w].attempt < LastAttempt
                    THEN /\ Frame(w, [thr[w] EXCEPT !.pc = RetryAt, !.attempt = @ + 1])
                         /\ UNCHANGED h_ret
                    ELSE /\ JobReturns(w, FALSE)
                         /\ h_ret' = [h_ret EXCEPT ![j] = "False"]
  /\ UNCHANGED <<pool, run, h_dequeued, h_issued, h_passwords, h_saved, h_proxy, h_calls>>
  /\ UNCHANGED <<inbox, flow>>

\* ---- save_account (lines 191-194) -----------------------------------------
\* The file opened with mode "w": the line replaces the file's content.
WriteLineTruncating(file, email, password) == <<<<email, password>>>>

\* lines 192-193: open(filename, "a") and write "email:password\n".
WriteLine(file, email, password) == Append(file, <<email, password>>)

\* line 192 and line 193: the file is opened for appending, by this thread
\* whatever the other threads do (save_account takes no lock), and the line
\* is written to the file object's buffer.
SaveOpen(w) ==
  /\ thr[w].pc = "save"
  /\ Frame(w, [thr[w] EXCEPT !.pc = "save_close"])
  /\ UNCHANGED <<pool, run, hjob, h_calls>>
  /\ UNCHANGED <<inbox, flow>>

\* The end of `with open(...)` (line 193): the buffered line reaches the
\* file in one append; then lines 313-314, save_account returns and
\* create_single_account returns True.
SaveAccount(w) ==
  /\ thr[w].pc = "save_close"
  /\ accounts' = WriteLine(accounts, thr[w].email, thr[w].password)
  /\ JobReturns(w, TRUE)
  /\ h_saved' = [h_saved EXCEPT ![thr[w].acc_index] =
                   @ + (Len(accounts') - Len(accounts))]
  /\ h_ret' = [h_ret EXCEPT ![thr[w].acc_index] = "True"]
  /\ UNCHANGED <<pool, total_accounts, threads, job_queue, results, main_pc, created>>
  /\ UNCHANGED <<h_dequeued, h_issued, h_passwords, h_tries, h_proxy, h_calls>>
  /\ UNCHANGED <<inbox, flow>>

\* line 337: results.extend(local_results), after the loop; the thread ends.
Extend(w) ==
  /\ thr[w].pc = "extend"
  /\ results' = results \o thr[w].local_results
  /\ Frame(w, Ended("done"))
  /\ UNCHANGED <<pool, total_accounts, threads, job_queue, accounts, main_pc, created>>
  /\ UNCHANGED <<hjob, h_calls>>
  /\ UNCHANGED <<inbox, flow>>

\* ---- main (lines 384-388) -------------------------------------------------
\* A thread has terminated when run_jobs returned or an error ended it.
Terminated(w) == thr[w].pc \in {"done", "crashed"}

\* line 387: created = sum(1 for r in results if r)
CountTrue(rs) == Cardinality({i \in 1 .. Len(rs) : rs[i]})

\* lines 384-388: join every thread, then report the summary.
MainJoin ==
  /\ main_pc = "join"
  /\ \A w \in Threads : Terminated(w)
  /\ created' = CountTrue(results)
  /\ main_pc' = "done"
  /\ UNCHANGED <<pool, total_accounts, threads, job_queue, results, accounts>>
  /\ UNCHANGED <<thr, hjob, h_calls>>
  /\ UNCHANGED <<inbox, flow>>

\* ---- specification --------------------------------------------------------
Step(w) ==
  \/ LoopTest(w)
  \/ GetNowait(w)
  \/ GnpEnter(w)
  \/ GnpScan(w)
  \/ GnpInc(w)
  \/ IssueIdentity(w)
  \/ TryCreateAccount(w)
  \/ SaveOpen(w)
  \/ SaveAccount(w)
  \/ Extend(w)

\* Worker threads differ only in thread_id, which selects a window position
\* (line 332) and nothing else: threads with equal frames are interchangeable,
\* and of several such threads only the first is stepped.
First(w) == \A v \in Threads : v < w => thr[v] # thr[w]

Next ==
  \/ \E w \in Threads : First(w) /\ LoopTest(w)
  \/ \E w \in Threads : First(w) /\ GetNowait(w)
  \/ \E w \in Threads : First(w) /\ GnpEnter(w)
  \/ \E w \in Threads : First(w) /\ GnpScan(w)
  \/ \E w \in Threads : First(w) /\ GnpInc(w)
  \/ \E w \in Threads : First(w) /\ IssueIdentity(w)
  \/ \E w \in Threads : First(w) /\ TryCreateAccount(w)
  \/ \E w \in Threads : First(w) /\ SaveOpen(w)
  \/ \E w \in Threads : First(w) /\ SaveAccount(w)
  \/ \E w \in Threads : First(w) /\ Extend(w)
  \/ MainJoin

Spec == Init /\ [][Next]_vars

\* Threads are OS threads: each one that can run eventually does, and so
\* does main once every join can return.
FairSpec ==
  /\ Spec
  /\ \A w \in 0 .. (MaxWorkers - 1) : WF_vars(w \in Threads /\ First(w) /\ Step(w))
  /\ WF_vars(MainJoin)

\* ---- get_next_proxy under concurrent callers ------------------------------
\* Any number of threads call get_next_proxy again and again on a pool as
\* load_proxies left it (None included); nothing else of the program runs.
Client == [Idle EXCEPT !.pc = "client", !.ret = "client"]

\* Calls are cut off after enough of them to exhaust the largest pool.
CallBudget == MaxPoolSize * MaxPoolCap + 2

PoolInit ==
  /\ PROXIES_LIST \in ProxyLists(MaxPoolSize)
  /\ PROXY_USAGE = InitUsage(PROXIES_LIST)
  /\ PROXY_INDEX = 0
  /\ PROXY_LOCK = {}
  /\ MAX_PROXY_USES \in 1 .. MaxPoolCap
  /\ total_accounts = 0
  /\ threads \in 1 .. MaxCallers
  /\ job_queue = << >>
  /\ results = << >>
  /\ accounts = << >>
  /\ thr = [w \in Threads |-> Client]
  /\ main_pc = "join"
  /\ created = 0
  /\ h_dequeued = << >>
  /\ h_issued = << >>
  /\ h_passwords = << >>
  /\ h_tries = << >>
  /\ h_ret = << >>
  /\ h_saved = << >>
  /\ h_proxy = << >>
  /\ h_calls = << >>
  /\ inbox = NoInbox
  /\ flow = NoFlow

InCall == {w \in Threads : thr[w].pc \in {"gnp", "gnp_scan", "gnp_inc"}}

\* proxy = get_next_proxy()
Call(w) ==
  /\ thr[w].pc = "client"
  /\ Len(h_calls) + Cardinality(InCall) < CallBudget
  /\ Frame(w, [thr[w] EXCEPT !.pc = "gnp"])
  /\ UNCHANGED <<pool, run, hjob, h_calls>>
  /\ UNCHANGED <<inbox, flow>>

PoolNext ==
  \/ \E w \in Threads : Call(w)
  \/ \E w \in Threads : GnpEnter(w)
  \/ \E w \in Threads : GnpScan(w)
  \/ \E w \in Threads : GnpInc(w)

PoolSpec == PoolInit /\ [][PoolNext]_vars

\* ---- the end-to-end scenario ----------------------------------------------
\* 5 jobs requested, 3 worker threads, proxies.txt with 2 proxies, cap 1.
ScenarioJobs == 5
ScenarioWorkers == 3
ScenarioProxies == 2
ScenarioCap == 1

ScenarioInit ==
  /\ PROXIES_LIST = [i \in 1 .. ScenarioProxies |-> ProxyName(i)]
  /\ PROXY_USAGE = InitUsage(PROXIES_LIST)
  /\ PROXY_INDEX = 0
  /\ PROXY_LOCK = {}
  /\ MAX_PROXY_USES = ScenarioCap
  /\ total_accounts = ScenarioJobs
  /\ threads = ScenarioWorkers
  /\ job_queue = [i \in 1 .. total_accounts |-> i]
  /\ results = << >>
  /\ accounts = << >>
  /\ thr = [w \in Threads |-> Idle]
  /\ main_pc = "join"
  /\ created = 0
  /\ h_dequeued = [j \in Jobs |-> 0]
  /\ h_issued = [j \in Jobs |-> << >>]
  /\ h_passwords = [j \in Jobs |-> << >>]
  /\ h_tries = [j \in Jobs |-> << >>]
  /\ h_ret = [j \in Jobs |-> "none"]
  /\ h_saved = [j \in Jobs |-> 0]
  /\ h_proxy = [j \in Jobs |-> << >>]
  /\ h_calls = << >>
  /\ inbox = NoInbox
  /\ flow = NoFlow

\* The services in the scenario: the mail service issues an address, and an
\* attempt whose browser starts reaches the activation page.  The launch can
\* still raise, so jobs end with True or with an error.
ScenarioEnv ==
  \A j \in Jobs :
    /\ None \notin Range(h_issued[j])
    /\ \A i \in 1 .. Len(h_tries[j]) : h_tries[j][i][3] # "False"

ScenarioNext ==
  \/ \E w \in Threads : First(w) /\ LoopTest(w)
  \/ \E w \in Threads : First(w) /\ GetNowait(w)
  \/ \E w \in Threads : First(w) /\ GnpEnter(w)
  \/ \E w \in Threads : First(w) /\ GnpScan(w)
  \/ \E w \in Threads : First(w) /\ GnpInc(w)
  \/ \E w \in Threads : First(w) /\ IssueIdentity(w) /\ ScenarioEnv'
  \/ \E w \in Threads : First(w) /\ TryCreateAccount(w) /\ ScenarioEnv'
  \/ \E w \in Threads : First(w) /\ SaveOpen(w)
  \/ \E w \in Threads : First(w) /\ SaveAccount(w)
  \/ \E w \in Threads : First(w) /\ Extend(w)
  \/ MainJoin

ScenarioSpec == ScenarioInit /\ [][ScenarioNext]_vars

\* ---- TempMailService.check_inbox_for_activation_link (lines 145-173) ------
\* One call of the function is observed on its own; the rest of the program
\* does not run.
Link(a, i) == "https://filen.io/activate/" \o ToString(a) \o "." \o ToString(i)

\* A message as the scan sees it: whether its sender contains "filen", and
\* what extract_activation_link finds in its body (a link or None).
Messages(a) ==
  {[from_filen |-> b, link |-> l] :
     b \in BOOLEAN, l \in {None} \cup {Link(a, i) : i \in 1 .. MaxMessages}}

\* What the a-th fetch can produce: an error (transport, HTTP status or
\* malformed body) or a list of messages.
Replies(a) ==
  {<<"error">>} \cup
  {<<"ok", m>> : m \in UNION {[1 .. n -> Messages(a)] : n \in 0 .. MaxMessages}}

\* lines 156-167: the link of the first message from filen that has one.
FirstMatch(msgs) ==
  LET hits == {i \in 1 .. Len(msgs) : msgs[i].from_filen /\ msgs[i].link # None}
  IN IF hits = {} THEN None
     ELSE msgs[CHOOSE i \in hits : \A k \in hits : i <= k].link

\* How the a-th iteration ends: in the handler, at the return, or at the
\* sleep of line 169.
Kind(reply) ==
  IF reply[1] = "error" THEN "error"
  ELSE IF FirstMatch(reply[2]) # None THEN "match" ELSE "nomatch"

\* The loop makes one iteration too many.
LoopDoneLate(attempt, max) == attempt > max

\* line 149: for attempt in range(1, max_attempts + 1)
LoopDone(attempt, max) == attempt >= max

others == <<pool, run, thr, hjob, h_calls>>

InboxInit ==
  /\ PROXIES_LIST = << >>
  /\ PROXY_USAGE = << >>
  /\ PROXY_INDEX = 0
  /\ PROXY_LOCK = {}
  /\ MAX_PROXY_USES = DefaultMaxProxyUses
  /\ total_accounts = 0
  /\ threads = 0
  /\ job_queue = << >>
  /\ results = << >>
  /\ accounts = << >>
  /\ thr = << >>
  /\ main_pc = "join"
  /\ created = 0
  /\ h_dequeued = << >>
  /\ h_issued = << >>
  /\ h_passwords = << >>
  /\ h_tries = << >>
  /\ h_ret = << >>
  /\ h_saved = << >>
  /\ h_proxy = << >>
  /\ h_calls = << >>
  /\ \E e \in {None, NewEmail(1, 1)}, m \in 0 .. MaxPollAttempts :
       inbox = [NoInbox EXCEPT !.pc = "enter", !.email = e, !.max_attempts = m]
  /\ flow = NoFlow

\* lines 146-149: no address, no polling; otherwise the loop starts.
CheckInboxEnter ==
  /\ inbox.pc = "enter"
  /\ inbox' = IF inbox.email = None \/ inbox.max_attempts < 1
               THEN [inbox EXCEPT !.pc = "returned", !.ret = None]
               ELSE [inbox EXCEPT !.pc = "fetch", !.attempt = 1]
  /\ UNCHANGED <<others, flow>>

\* lines 150-167 and 170-171: one fetch and the scan of its messages.
InboxFetch ==
  /\ inbox.pc = "fetch"
  /\ \E reply \in Replies(inbox.attempt) :
       inbox' = IF Kind(reply) = "match"
                THEN [inbox EXCEPT !.pc = "returned", !.reply = reply,
                                   !.log = Append(@, Kind(reply)),
                                   !.ret = FirstMatch(reply[2])]
                ELSE [inbox EXCEPT !.pc = "sleep", !.reply = reply,
                                   !.log = Append(@, Kind(reply))]
  /\ UNCHANGED <<others, flow>>

\* lines 169 and 172: time.sleep(INBOX_POLL_INTERVAL), then the next
\* iteration, or line 173 when the loop is over.
InboxSleep ==
  /\ inbox.pc = "sleep"
  /\ inbox' = IF LoopDone(inbox.attempt, inbox.max_attempts)
               THEN [inbox EXCEPT !.pc = "returned", !.slept = @ + 1, !.ret = None]
               ELSE [inbox EXCEPT !.pc = "fetch", !.slept = @ + 1, !.attempt = @ + 1]
  /\ UNCHANGED <<others, flow>>

InboxNext ==
  \/ CheckInboxEnter
  \/ InboxFetch
  \/ InboxSleep

InboxSpec == InboxInit /\ [][InboxNext]_vars

\* ---- try_create_account, stage by stage (lines 221-297) -------------------
\* One call of the function is observed on its own.  flow.done lists the
\* stages completed, flow.link_by the strategy that found the register link,
\* flow.browser and flow.playwright the session.
Stages == <<"launch", "entry_page", "register_link", "form", "submit",
            "activation_link", "activation_page">>

\* lines 226-233: the launch arguments.
BrowserArgs(headless, proxy) ==
  [headless |-> headless, window |-> ~headless, proxy |-> proxy]

FlowInit ==
  /\ PROXIES_LIST = << >>
  /\ PROXY_USAGE = << >>
  /\ PROXY_INDEX = 0
  /\ PROXY_LOCK = {}
  /\ MAX_PROXY_USES = DefaultMaxProxyUses
  /\ total_accounts = 0
  /\ threads = 0
  /\ job_queue = << >>
  /\ results = << >>
  /\ accounts = << >>
  /\ thr = << >>
  /\ main_pc = "join"
  /\ created = 0
  /\ h_dequeued = << >>
  /\ h_issued = << >>
  /\ h_passwords = << >>
  /\ h_tries = << >>
  /\ h_ret = << >>
  /\ h_saved = << >>
  /\ h_proxy = << >>
  /\ h_calls = << >>
  /\ inbox = NoInbox
  /\ \E h \in BOOLEAN, p \in {None, ProxyName(1)} :
       flow = [NoFlow EXCEPT !.pc = "launch", !.headless = h, !.proxy = p]

\* Leaving `async with async_playwright()` (line 225), by return or by an
\* error, stops Playwright, and with it any browser still open.
Leave(f, ret) == [f EXCEPT !.pc = "returned", !.ret = ret, !.playwright = "stopped"]

\* The stage at flow.pc is completed; the next one follows.
Advance(f, next) == [f EXCEPT !.pc = next, !.done = Append(@, f.pc)]

\* lines 259-260 and 283-284: await browser.close(); return False
CloseAndFail(f) == Leave([f EXCEPT !.browser = "closed"], "False")

\* lines 291-297: the handler of every error raised inside `try:`; an error
\* of browser.close() itself is swallowed (closed = FALSE).
Handler(f, closed) ==
  Leave([f EXCEPT !.browser = IF closed THEN "closed" ELSE @], "False")

\* lines 225-237: Playwright starts, then launch, new_context, new_page;
\* none of them is inside `try:`, an error leaves the function.
FlowLaunch ==
  /\ flow.pc = "launch"
  /\ LET f == [flow EXCEPT !.playwright = "running",
                           !.args = BrowserArgs(flow.headless, flow.proxy)]
     IN \E o \in {"ok", "launch_error", "context_error"} :
          flow' = CASE o = "ok" -> Advance([f EXCEPT !.browser = "open"], "entry_page")
                    [] o = "launch_error" -> Leave(f, "raised")
                    [] o = "context_error" ->
                         Leave([f EXCEPT !.browser = "open"], "raised")
  /\ UNCHANGED <<others, inbox>>

\* line 243: page.goto(INITIAL_REFERRAL_URL)
FlowEntryPage ==
  /\ flow.pc = "entry_page"
  /\ \E o \in {"ok", "error"}, closed \in BOOLEAN :
       flow' = IF o = "ok" THEN Advance(flow, "register_link")
               ELSE Handler(flow, closed)
  /\ UNCHANGED <<others, inbox>>

\* lines 245-260: the register link by exact href, then by partial href or
\* by text; a timeout of the fallback closes the browser and returns False,
\* any other error goes to the handler.
FlowRegisterLink ==
  /\ flow.pc = "register_link"
  /\ \E o \in {"exact", "by_href", "by_text", "timeout", "error"}, closed \in BOOLEAN :
       flow' = CASE o \in {"exact", "by_href", "by_text"} ->
                      Advance([flow EXCEPT !.link_by = o], "form")
                 [] o = "timeout" ->
                      IF closed THEN CloseAndFail(flow) ELSE Handler(flow, FALSE)
                 [] o = "error" -> Handler(flow, closed)
  /\ UNCHANGED <<others, inbox>>

\* lines 262-274: the form appears, the cookie banner is accepted if there
\* is one, the three fields are filled.
FlowForm ==
  /\ flow.pc = "form"
  /\ \E o \in {"ok", "error"}, closed \in BOOLEAN :
       flow' = IF o = "ok" THEN Advance(flow, "submit") ELSE Handler(flow, closed)
  /\ UNCHANGED <<others, inbox>>

\* line 276: click "Create account"
FlowSubmit ==
  /\ flow.pc = "submit"
  /\ \E o \in {"ok", "error"}, closed \in BOOLEAN :
       flow' = IF o = "ok" THEN Advance(flow, "activation_link")
               ELSE Handler(flow, closed)
  /\ UNCHANGED <<others, inbox>>

\* lines 280-284: check_inbox_for_activation_link returns a link or None.
FlowActivationLink ==
  /\ flow.pc = "activation_link"
  /\ \E o \in {"link", "none"}, closed \in BOOLEAN :
       flow' = CASE o = "link" -> Advance(flow, "activation_page")
                 [] o = "none" ->
                      IF closed THEN CloseAndFail(flow) ELSE Handler(flow, FALSE)
  /\ UNCHANGED <<others, inbox>>

\* lines 286-289: page.goto(activation); browser.close(); return True.  An
\* error of either call goes to the handler.
FlowActivationPage ==
  /\ flow.pc = "activation_page"
  /\ \E o \in {"ok", "error", "close_error"}, closed \in BOOLEAN :
       flow' = CASE o = "ok" ->
                      Leave([Advance(flow, "returned") EXCEPT !.browser = "closed"],
                            "True")
                 [] o = "error" -> Handler(flow, closed)
                 [] o = "close_error" ->
                      Handler(Advance(flow, "returned"), FALSE)
  /\ UNCHANGED <<others, inbox>>

FlowNext ==
  \/ FlowLaunch
  \/ FlowEntryPage
  \/ FlowRegisterLink
  \/ FlowForm
  \/ FlowSubmit
  \/ FlowActivationLink
  \/ FlowActivationPage

FlowSpec == FlowInit /\ [][FlowNext]_vars

\* ==== Properties ==========================================================
\* Reading h_calls: the calls that returned a proxy, and how often p was
\* returned.
Allocations == SelectSeq(h_calls, LAMBDA c : c.ret # None)
TimesReturned(p) == Cardinality({i \in 1 .. Len(h_calls) : h_calls[i].ret = p})
InCritical == {w \in Threads : thr[w].pc \in {"gnp_scan", "gnp_inc"}}

\* C1: under every interleaving of concurrent get_next_proxy calls, no usage
\* count exceeds MAX_PROXY_USES and no identifier is returned more than
\* MAX_PROXY_USES times; the eligibility check and the increment of one call
\* are not separated by another thread's allocation: at most one thread is
\* between its check and its increment, and the counter it read is still the
\* counter's value when it writes.
C1_CapUnderConcurrency ==
  /\ \A p \in DOMAIN PROXY_USAGE : PROXY_USAGE[p] <= MAX_PROXY_USES
  /\ \A p \in Range(PROXIES_LIST) : TimesReturned(p) <= MAX_PROXY_USES
  /\ Cardinality(InCritical) <= 1
  /\ \A w \in Threads :
       thr[w].pc = "gnp_inc" =>
         /\ thr[w].cnt = PROXY_USAGE[thr[w].p]
         /\ thr[w].cnt < MAX_PROXY_USES

\* Two threads contend for the last use of a proxy: one has passed the check
\* with the counter one below the cap, the other is waiting to enter.
C1_Witness ==
  \E w1, w2 \in Threads :
    /\ w1 # w2
    /\ thr[w1].pc = "gnp_inc"
    /\ thr[w1].cnt + 1 = MAX_PROXY_USES
    /\ thr[w2].pc = "gnp"
    /\ MAX_PROXY_USES >= 2

\* C2 as claimed: with N = len(PROXIES_LIST) records and cap C, the first N*C
\* calls each return a proxy and every later call returns None.
C2_ExhaustAfterNTimesC ==
  LET nc == Len(PROXIES_LIST) * MAX_PROXY_USES
  IN \A k \in 1 .. Len(h_calls) :
       /\ k <= nc => h_calls[k].ret # None
       /\ k > nc => h_calls[k].ret = None

\* C2 amended: the records that count are the distinct identifiers.  With D
\* distinct identifiers in PROXIES_LIST and cap C, the first D*C calls each
\* return a proxy, and every later call returns None, for ever, taking the
\* no-proxy exit without waiting for the lock holder to change anything.
C2_ExhaustAfterDistinctTimesC ==
  LET dc == Cardinality(Range(PROXIES_LIST)) * MAX_PROXY_USES
  IN \A k \in 1 .. Len(h_calls) :
       /\ k <= dc => h_calls[k].ret # None
       /\ k > dc => h_calls[k].ret = None /\ h_calls[k].how = "none"

\* A list with a duplicate line and two identifiers is exhausted and a later
\* call has returned None.
C2_Witness ==
  LET d == Cardinality(Range(PROXIES_LIST))
  IN /\ d >= 2
     /\ d < Len(PROXIES_LIST)
     /\ MAX_PROXY_USES >= 2
     /\ Len(h_calls) > d * MAX_PROXY_USES
     /\ h_calls[Len(h_calls)].ret = None

\* The offsets from cursor `at` at which the rotation finds a record whose
\* counter, as the call saw it, is below the cap.
EligibleOffsets(seen, at) ==
  LET n == Len(PROXIES_LIST)
  IN {j \in 0 .. (n - 1) : seen[PROXIES_LIST[((at + j) % n) + 1]] < MAX_PROXY_USES}

Least(S) == CHOOSE j \in S : \A i \in S : j <= i

\* C3: round-robin order.  While no record is exhausted the k-th successful
\* call returns PROXIES_LIST[(k-1) mod N]; the cursor stays in 0..N-1; and
\* every successful call returns the first record, in cursor order from the
\* cursor it found, that is not exhausted (exhausted records are skipped),
\* leaving the cursor just behind the record returned.
C3_RoundRobin ==
  LET n == Len(PROXIES_LIST)
  IN /\ n > 0 => PROXY_INDEX \in 0 .. (n - 1)
     /\ \A k \in 1 .. Len(Allocations) :
          (\A p \in Range(PROXIES_LIST) : Allocations[k].seen[p] < MAX_PROXY_USES)
            => Allocations[k].ret = PROXIES_LIST[((k - 1) % n) + 1]
     /\ \A k \in 1 .. Len(h_calls) :
          LET c == h_calls[k]
              offs == EligibleOffsets(c.seen, c.at)
          IN IF offs = {} THEN c.ret = None
             ELSE /\ c.ret = PROXIES_LIST[((c.at + Least(offs)) % n) + 1]
                  /\ c.left = (c.at + Least(offs) + 1) % n

\* The rotation has wrapped and a call has skipped an exhausted record: it
\* returned another record than the one under the cursor.
C3_Witness ==
  /\ Len(Allocations) > Len(PROXIES_LIST)
  /\ \E k \in 1 .. Len(h_calls) :
       /\ h_calls[k].ret # None
       /\ h_calls[k].ret # PROXIES_LIST[h_calls[k].at + 1]

\* Reading the job histories.
JobOver(j) == h_ret[j] # "none"
Attempts(j) == Len(h_tries[j])
Outcome(j, i) == h_tries[j][i][3]
ReturnedTrue == {j \in Jobs : h_ret[j] = "True"}
InJob == {w \in Threads :
            thr[w].pc \in {"gnp", "gnp_scan", "gnp_inc", "issue", "attempt", "save",
                          "save_close"}}

\* C4: a job makes at most 2 workflow attempts; a second attempt is made if
\* and only if the first one failed (did not succeed); no attempt follows a
\* successful one; every attempt uses the one email and the one password
\* generated at job start.
C4_RetryOnceSameIdentity ==
  \A j \in Jobs :
    /\ Attempts(j) <= 2
    /\ Attempts(j) = 2 => Outcome(j, 1) # "True"
    /\ (JobOver(j) /\ Attempts(j) >= 1 /\ Outcome(j, 1) # "True") => Attempts(j) = 2
    /\ \A i \in 1 .. Attempts(j) : Outcome(j, i) = "True" => i = Attempts(j)
    /\ Len(h_issued[j]) <= 1 /\ Len(h_passwords[j]) <= 1
    /\ \A i \in 1 .. Attempts(j) :
         /\ h_tries[j][i][1] = h_issued[j][1]
         /\ h_tries[j][i][2] = h_passwords[j][1]

C6_IssuanceFailureEndsJob ==
  \A j \in Jobs :
    /\ Len(h_issued[j]) <= 1
    /\ (Len(h_issued[j]) = 1 /\ h_issued[j][1] = None) =>
         /\ h_ret[j] = "False"
         /\ h_tries[j] = << >>
         /\ h_passwords[j] = << >>
         /\ h_saved[j] = 0
         /\ \A i \in 1 .. Len(accounts) : accounts[i][1] # None

\* A job failed issuance while the other job of the run was saved.
C6_Witness ==
  /\ main_pc = "done"
  /\ \E j \in Jobs : h_issued[j] = <<None>>
  /\ Len(accounts) = 1

\* C7: every job index is dequeued at most once, so by one worker only: no
\* two workers run the same index, no worker runs an index twice, and an
\* index that was dequeued is no longer in the queue.
C7_DequeuedOnce ==
  /\ \A j \in Jobs : h_dequeued[j] <= 1
  /\ \A j \in Jobs : h_dequeued[j] = 1 => j \notin Range(job_queue)
  /\ \A w1, w2 \in InJob : w1 # w2 => thr[w1].acc_index # thr[w2].acc_index
  /\ \A w \in InJob : h_dequeued[thr[w].acc_index] = 1

\* Two workers raced for the queue and run different jobs at the same time.
C7_Witness ==
  /\ Cardinality(InJob) = 2
  /\ job_queue = << >>

\* C8: after the join, results holds one outcome for every job a worker ran
\* to completion and the reported count is the number of jobs that returned
\* True.
C8_ResultsExact ==
  main_pc = "done" =>
    /\ Len(results) = Cardinality({j \in Jobs : h_ret[j] \in {"True", "False"}})
    /\ created = Cardinality(ReturnedTrue)

\* C9: no error escapes a job: no thread is ended by one, and every job that
\* was run ends with a boolean.
C9_NoErrorEscapes ==
  /\ \A w \in Threads : thr[w].pc # "crashed"
  /\ \A j \in Jobs : h_ret[j] # "raised"

\* C10: with every attempt and network call returning, every worker
\* eventually terminates and main eventually reports the summary, whatever
\* the jobs' outcomes; a worker that saw the queue non-empty and finds it
\* empty at get_nowait leaves the loop.
C10_RunTerminates ==
  <>(main_pc = "done" /\ \A w \in Threads : Terminated(w))

\* A worker passed the `empty()` test and is at get_nowait with the queue
\* emptied by another worker, which runs the last job.
C10_Witness ==
  \E w1, w2 \in Threads :
    /\ thr[w1].pc = "get"
    /\ job_queue = << >>
    /\ w2 \in InJob
    /\ thr[w2].acc_index = total_accounts

\* C11: the summary is computed only when every worker has terminated, and
\* then the job queue is empty and every job index 1..total_accounts has been
\* run and has its outcome recorded in results.
C11_JoinBarrier ==
  main_pc = "done" =>
    /\ \A w \in Threads : Terminated(w)
    /\ job_queue = << >>
    /\ \A j \in Jobs : h_dequeued[j] = 1 /\ h_ret[j] \in {"True", "False"}
    /\ Len(results) = total_accounts

\* The jobs that were handed no proxy.
Unproxied == {j \in Jobs : None \in Range(h_proxy[j])}

C13_PollBounded ==
  LET n == Len(inbox.log)
      misses == Cardinality({i \in 1 .. n : inbox.log[i] # "match"})
  IN /\ n <= inbox.max_attempts
     /\ inbox.pc \in {"fetch", "sleep", "returned"} => n = inbox.attempt - (IF inbox.pc = "fetch" THEN 1 ELSE 0)
     /\ inbox.slept = misses - (IF inbox.pc = "sleep" THEN 1 ELSE 0)
     /\ \A i \in 1 .. n : inbox.log[i] = "match" => i = n /\ inbox.pc = "returned"
     /\ inbox.pc = "returned" =>
          IF n > 0 /\ inbox.log[n] = "match"
          THEN /\ inbox.ret = FirstMatch(inbox.reply[2])
               /\ inbox.ret # None
          ELSE /\ inbox.ret = None
               /\ inbox.email # None => n = inbox.max_attempts
               /\ inbox.email = None => n = 0
     /\ inbox.pc # "returned" => inbox.ret = None

\* The third fetch found the link, in its second message, after a fetch
\* that raised and a fetch without a match.
C13_Witness ==
  /\ inbox.pc = "returned"
  /\ inbox.log = <<"error", "nomatch", "match">>
  /\ inbox.slept = 2
  /\ inbox.ret = Link(3, 2)

\* The number of jobs dequeued so far.
RECURSIVE SumTo(_, _)
SumTo(f, n) == IF n = 0 THEN 0 ELSE f[n] + SumTo(f, n - 1)
Dequeued == SumTo(h_dequeued, total_accounts)

\* C14: a job makes exactly one get_next_proxy call, before its identity is
\* issued and so before its first attempt; every attempt of the job is made
\* with the value that call returned, a proxy or None; a step that makes an
\* attempt leaves the cursor and the usage counters as they were; and the
\* calls, and so the successful allocations, are never more than the jobs
\* dequeued.
C14_OneAllocationPerJob ==
  /\ [](/\ \A j \in Jobs :
            /\ Len(h_proxy[j]) <= 1
            /\ h_issued[j] # << >> => Len(h_proxy[j]) = 1
            /\ \A i \in 1 .. Attempts(j) : h_tries[j][i][4] = h_proxy[j][1]
        /\ Len(h_calls) <= Dequeued
        /\ Len(Allocations) <= Dequeued)
  /\ [][h_tries' # h_tries =>
          /\ PROXY_INDEX' = PROXY_INDEX
          /\ PROXY_USAGE' = PROXY_USAGE
          /\ h_calls' = h_calls]_vars

\* A job made its second attempt with the proxy of its first attempt, the
\* only allocation of the run so far.
C14_Witness ==
  \E j \in Jobs :
    /\ Attempts(j) = 2
    /\ h_tries[j][1][4] # None
    /\ h_tries[j][2][4] = h_tries[j][1][4]
    /\ PROXY_USAGE[h_tries[j][1][4]] = 1
    /\ Len(h_calls) = 1

\* The automation session is released: no browser was started, or it was
\* closed, or Playwright was stopped under it.
Released == flow.browser \in {"none", "closed"} \/ flow.playwright = "stopped"

\* C15: every attempt that does not complete, whichever stage it fails at,
\* the launch included, ends with the session released and returns False;
\* an attempt returns True only if all stages were completed, in stage order.
C15_AttemptFailsClosed ==
  flow.pc = "returned" =>
    /\ Released
    /\ flow.ret \in {"True", "False"}
    /\ flow.ret = "True" => flow.done = Stages
    /\ flow.done # Stages => flow.ret = "False"

\* The threads between save_account's open and close.
InSave == {w \in Threads : thr[w].pc = "save_close"}

\* C16: appends to accounts.txt are serialized: no two threads are between
\* save_account's open and its close at the same time, and the file holds
\* one intact email:password line for every job that returned True.
C16_SavesSerialized ==
  /\ Cardinality(InSave) <= 1
  /\ Len(accounts) = Cardinality(ReturnedTrue)
  /\ \A j \in ReturnedTrue :
       \E i \in 1 .. Len(accounts) : accounts[i] = <<h_issued[j][1], h_passwords[j][1]>>

\* The lines of kind `kind` printed about proxy p, as <<call, line>> pairs.
LinesAbout(kind, p) ==
  {<<k, i>> \in (1 .. Len(h_calls)) \X (1 .. 1) :
     /\ i <= Len(h_calls[k].log)
     /\ h_calls[k].log[i][1] = kind
     /\ h_calls[k].log[i][2] = p}

\* C17: a call that returns a proxy prints exactly one line, about that
\* proxy and with its new count, and a call that returns None prints no line
\* about a proxy; the line of the allocation that brings a record to the cap
\* is the exhaustion line, printed by that call and no other, so each
\* record's exhaustion is logged once when it has happened and not before.
C17_LoggedOnce ==
  /\ \A k \in 1 .. Len(h_calls) :
       LET c == h_calls[k]
       IN IF c.ret = None
          THEN \A i \in 1 .. Len(c.log) : c.log[i][2] = None
          ELSE /\ Len(c.log) = 1
               /\ c.log[1][2] = c.ret
               /\ c.log[1][3] = c.seen[c.ret] + 1
               /\ c.log[1][1] = IF c.seen[c.ret] + 1 = MAX_PROXY_USES
                                THEN "exhausted" ELSE "assigned"
  /\ \A p \in Range(PROXIES_LIST) :
       /\ Cardinality(LinesAbout("exhausted", p)) =
            IF PROXY_USAGE[p] >= MAX_PROXY_USES THEN 1 ELSE 0
       /\ Cardinality(LinesAbout("exhausted", p)) + Cardinality(LinesAbout("assigned", p))
            = TimesReturned(p)

\* With a cap above 1 and two callers, a record was assigned and later
\* exhausted, and a call after that found every record exhausted.
C17_Witness ==
  /\ MAX_PROXY_USES >= 2
  /\ threads >= 2
  /\ \E p \in Range(PROXIES_LIST) :
       /\ LinesAbout("assigned", p) # {}
       /\ LinesAbout("exhausted", p) # {}
  /\ \E k \in 1 .. Len(h_calls) : h_calls[k].log = <<<<"all_exhausted", None, 0>>>>

\* The jobs that were handed proxy p.
JobsWith(p) == {j \in Jobs : p \in Range(h_proxy[j])}

\* C18: a job's proxy use is consumed when the job is dequeued, before its
\* identity is issued, and is never given back: at every moment the usage
\* count of a proxy is the number of jobs that were handed it, whether they
\* are running, succeeded, failed issuance without any attempt, failed both
\* attempts or were ended by an error; and no step decreases a counter.
C18_UseConsumedAtDequeue ==
  /\ [](/\ \A p \in DOMAIN PROXY_USAGE : PROXY_USAGE[p] = Cardinality(JobsWith(p))
        /\ \A j \in Jobs : h_issued[j] # << >> => Len(h_proxy[j]) = 1)
  /\ [][\A p \in DOMAIN PROXY_USAGE : PROXY_USAGE'[p] >= PROXY_USAGE[p]]_vars

\* The run is over: one job failed issuance without any attempt, another
\* failed both attempts, and the proxy both were handed has two uses.
C18_Witness ==
  /\ main_pc = "done"
  /\ \E j1, j2 \in Jobs, p \in DOMAIN PROXY_USAGE :
       /\ h_issued[j1] = <<None>> /\ Attempts(j1) = 0 /\ h_ret[j1] = "False"
       /\ Attempts(j2) = 2 /\ h_ret[j2] = "False"
       /\ h_proxy[j1] = <<p>> /\ h_proxy[j2] = <<p>>
       /\ PROXY_USAGE[p] = 2

\* The sum of the usage counts.
RECURSIVE SumOver(_, _)
SumOver(usage, keys) ==
  IF keys = << >> THEN 0 ELSE usage[Head(keys)] + SumOver(usage, Tail(keys))
TotalUsage == SumOver(PROXY_USAGE, DictKeys(PROXIES_LIST))

Distinct(l) == Cardinality(Range(l)) = Len(l)

\* C19: for a list of distinct identifiers, whose counters start at 0, under
\* every interleaving of callers the usage counts of any two proxies differ
\* by at most 1, and the counts add up to the number of get_next_proxy calls
\* that returned a proxy.
C19_BalancedUsage ==
  Distinct(PROXIES_LIST) =>
    /\ \A p, q \in DOMAIN PROXY_USAGE : PROXY_USAGE[p] - PROXY_USAGE[q] <= 1
    /\ TotalUsage = Len(Allocations)

\* Three distinct proxies and two callers: the rotation is in its second
\* round, one proxy has two uses and another has one.
C19_Witness ==
  /\ Distinct(PROXIES_LIST)
  /\ Len(PROXIES_LIST) = 3
  /\ threads >= 2
  /\ \E p, q \in DOMAIN PROXY_USAGE : PROXY_USAGE[p] = 2 /\ PROXY_USAGE[q] = 1

\* C20: the fallback of get_next_proxy is never taken: whenever a record is
\* below the cap the scan returns a proxy within N steps from the cursor,
\* wherever the cursor is and whether or not the list has duplicate lines;
\* and a call on an exhausted or empty pool returns None and leaves the
\* cursor and the counters as they were.
C20_FallbackUnreachable ==
  /\ [](\A k \in 1 .. Len(h_calls) :
          LET c == h_calls[k]
              below == {p \in DOMAIN c.seen : c.seen[p] < MAX_PROXY_USES}
          IN /\ c.how # "fallback"
             /\ below # {} => c.ret \in below /\ c.how = "scan"
             /\ below = {} => c.ret = None /\ c.left = c.at)
  /\ [][(Len(h_calls') > Len(h_calls) /\ h_calls'[Len(h_calls')].ret = None) =>
          /\ PROXY_INDEX' = PROXY_INDEX
          /\ PROXY_USAGE' = PROXY_USAGE]_vars

\* On a list with a duplicate line a call found the cursor past the start
\* and on an exhausted record, skipped it and returned another record; a
\* later call found the pool exhausted.
C20_Witness ==
  /\ ~Distinct(PROXIES_LIST)
  /\ \E k \in 1 .. Len(h_calls) :
       /\ h_calls[k].how = "scan"
       /\ h_calls[k].at > 0
       /\ h_calls[k].ret # PROXIES_LIST[h_calls[k].at + 1]
  /\ Len(h_calls) > 0
  /\ h_calls[Len(h_calls)].ret = None

====
